---- MODULE Spec2Model ----
(***************************************************************************)
(* Model of ds-rust (src/main.rs): the KVLite store over one SQLite table  *)
(* and the command line front end that serves one subcommand per run.      *)
(*                                                                         *)
(* The database file is shared by two processes: "cli", the runs of main   *)
(* one after the other, and "lib", a caller of the KVLite API (as          *)
(* tests::setup_store is) that may hold its store while main runs.         *)
(* KVLite::new is three steps, because it is three awaits on the           *)
(* database: connect, catalog query, CREATE TABLE.                         *)
(* Keys and values are numbered: key i stands for "key<i>", value i for    *)
(* "value<i>", as the repository's test names them.                        *)
(***************************************************************************)
EXTENDS Integers, Sequences, FiniteSets, TLC

NumKeys == 2
NumVals == 2

Keys == 1..NumKeys
Vals == 1..NumVals
Procs == {"cli", "lib"}
Files == {"good", "bad"}
DirEnv == {"ok", "noconfigdir", "mkdirfails"}

VARIABLES
    fileExists,   \* the database file is on disk
    tableExists,  \* sqlite_master holds the table kv_name
    rows,         \* the table's rows; no statement has an ORDER BY, the model
                  \* lists them by key and states every property up to order
    createCount,  \* CREATE TABLE statements that succeeded
    pc,           \* where each process stands
    args,         \* the arguments of the process's call of KVLite::new
    found,        \* what the catalog query of KVLite::new returned
    lastRes,      \* the call that returned in the last step, NoRes if none did;
                  \* of a set or del, val is the value bound and was (history)
                  \* the value the key had before, 0 for none
    stdout,       \* the lines printed by the run of main that ended in the last step
    status,       \* the exit status of that run, -1 if none ended
    live,         \* history: value of the last successful set of a key, 0 after del
    opensDone,    \* history: some call of KVLite::new has returned Ok
    after         \* history: the process called new after some new had returned Ok

vars == <<fileExists, tableExists, rows, createCount, pc, args, found,
          lastRes, stdout, status, live, opensDone, after>>

dbvars == <<fileExists, tableExists, rows, createCount, live>>

----------------------------------------------------------------------------
(* Values *)

NoArgs == [filename |-> "none", read_only |-> FALSE, create_new |-> FALSE]

NoRes == [proc |-> "none", op |-> "none", key |-> 0, ok |-> TRUE,
          err |-> "", val |-> 0, was |-> 0, found |-> FALSE, out |-> <<>>]

Ok(op, k) == [NoRes EXCEPT !.op = op, !.key = k]

Err(op, k, e) == [NoRes EXCEPT !.op = op, !.key = k, !.ok = FALSE, !.err = e]

Line(text, k, v) == [text |-> text, k |-> k, v |-> v]

----------------------------------------------------------------------------
(* The SQL statements, on the table as a sequence of rows *)

\* (variant: the catalog query matches no row)
SelectNameFromMasterNone(exists) == <<>>

\* SELECT name FROM sqlite_master WHERE type="table" AND name=?
SelectNameFromMaster(exists) == IF exists THEN <<[name |-> "store"]>> ELSE <<>>

\* SELECT value FROM T WHERE key=?
SelectValueWhereKey(t, k) ==
    LET Match(r) == r.key = k
        hit == SelectSeq(t, Match)
    IN [i \in 1..Len(hit) |-> [value |-> hit[i].value]]

\* (variant: INSERT OR IGNORE, the conflicting row is kept)
InsertOrIgnore(t, k, v) ==
    LET Match(r) == r.key = k
        Below(r) == r.key < k
        Above(r) == r.key > k
    IN IF SelectSeq(t, Match) # <<>> THEN t
       ELSE SelectSeq(t, Below) \o <<[key |-> k, value |-> v]>> \o SelectSeq(t, Above)

\* (variant: a table without the primary key, a plain INSERT)
InsertAppend(t, k, v) ==
    LET NotAbove(r) == r.key <= k
        Above(r) == r.key > k
    IN SelectSeq(t, NotAbove) \o <<[key |-> k, value |-> v]>> \o SelectSeq(t, Above)

\* INSERT OR REPLACE INTO T VALUES (?, ?): the row that conflicts on the
\* primary key is deleted, the new row is inserted
InsertOrReplace(t, k, v) ==
    LET Below(r) == r.key < k
        Above(r) == r.key > k
    IN SelectSeq(t, Below) \o <<[key |-> k, value |-> v]>> \o SelectSeq(t, Above)

\* (variant: the WHERE clause matches no row)
DeleteNothing(t, k) == t

\* (variant: DELETE FROM T, without the WHERE clause)
DeleteAll(t, k) == <<>>

\* DELETE FROM T WHERE key=?
DeleteWhereKey(t, k) ==
    LET Other(r) == r.key # k
    IN SelectSeq(t, Other)

\* SELECT key FROM T
SelectKey(t) == [i \in 1..Len(t) |-> [key |-> t[i].key]]

\* (variant: values() selects the key column)
SelectValueAsKey(t) == [i \in 1..Len(t) |-> [value |-> t[i].key]]

\* SELECT value FROM T
SelectValue(t) == [i \in 1..Len(t) |-> [value |-> t[i].value]]

\* SELECT key,value FROM T
SelectKeyValue(t) == [i \in 1..Len(t) |-> [key |-> t[i].key, value |-> t[i].value]]

\* fetch_one: the first row, Error::RowNotFound when there is none
FetchOne(q) ==
    IF q = <<>> THEN [ok |-> FALSE, err |-> "RowNotFound", row |-> [value |-> 0]]
    ELSE [ok |-> TRUE, err |-> "", row |-> q[1]]

\* (variant: fetch_one in the place of fetch_optional)
FetchOptionalAsOne(q) ==
    IF q = <<>> THEN [ok |-> FALSE, err |-> "RowNotFound", some |-> FALSE]
    ELSE [ok |-> TRUE, err |-> "", some |-> TRUE]

\* fetch_optional: Some(first row) or None, never an error for no rows
FetchOptional(q) ==
    IF q = <<>> THEN [ok |-> TRUE, err |-> "", some |-> FALSE]
    ELSE [ok |-> TRUE, err |-> "", some |-> TRUE]

\* (variant: the read_only option is not passed on to the connection)
WriteAllowedAlways(a) == TRUE

\* a connection opened with read_only(true) rejects every writing statement
WriteAllowed(a) == ~a.read_only

\* SqlitePool::connect_with(options): read_only opens SQLITE_OPEN_READONLY,
\* otherwise create_if_missing adds SQLITE_OPEN_CREATE
ConnectOk(a, exists) ==
    /\ a.filename = "good"
    /\ exists \/ (a.create_new /\ ~a.read_only)

----------------------------------------------------------------------------
(* The results of the KVLite methods *)

GetResult(t, k) ==
    LET r == FetchOne(SelectValueWhereKey(t, k))
    IN IF r.ok THEN [Ok("get", k) EXCEPT !.val = r.row.value]
       ELSE Err("get", k, r.err)

ContainsResult(t, k) ==
    LET r == FetchOptional(SelectValueWhereKey(t, k))
    IN IF r.ok THEN [Ok("contains", k) EXCEPT !.found = r.some]
       ELSE Err("contains", k, r.err)

SetResult(a, k) ==
    IF WriteAllowed(a) THEN Ok("set", k) ELSE Err("set", k, "ReadOnly")

DelResult(a, k) ==
    IF WriteAllowed(a) THEN Ok("del", k) ELSE Err("del", k, "ReadOnly")

----------------------------------------------------------------------------
(* What main prints for a Result, and the status it exits with *)

Display(b) == IF b THEN "true" ELSE "false"

ErrLines(res) == <<Line(res.err, 0, 0)>>

PrintLines(res) ==
    IF ~res.ok THEN ErrLines(res)
    ELSE CASE res.op \in {"set", "del"} -> <<Line("ok", 0, 0)>>
           [] res.op = "contains" -> <<Line(Display(res.found), 0, 0)>>
           [] res.op = "get" -> <<Line("value", 0, res.val)>>
           [] res.op = "keys" ->
                [i \in 1..Len(res.out) |-> Line("key", res.out[i].key, 0)]
           [] res.op = "values" ->
                [i \in 1..Len(res.out) |-> Line("value", 0, res.out[i].value)]
           [] res.op = "records" ->
                [i \in 1..Len(res.out) |->
                    Line("key,value", res.out[i].key, res.out[i].value)]

\* (variant: main returns the Err of the command with "?")
CommandStatusPropagate(res) == IF res.ok THEN 0 ELSE 1

\* main matches on the Result of the command and returns Ok(()) either way
CommandStatus(res) == 0

\* main ends early: a panic of expect(), or an Err that "?" returns
StartupStatus(e) == IF e = "panic" THEN 101 ELSE 1

\* a step in which no call returns and no run of main ends
Quiet ==
    /\ lastRes' = NoRes
    /\ stdout' = <<>>
    /\ status' = -1

\* the process is over: its KVLite and its connection are dropped
Ended(p) ==
    /\ pc' = [pc EXCEPT ![p] = "idle"]
    /\ args' = [args EXCEPT ![p] = NoArgs]
    /\ found' = [found EXCEPT ![p] = FALSE]
    /\ after' = [after EXCEPT ![p] = FALSE]

\* the end of a KVLite call: main prints and exits, a library caller goes on
Deliver(p, res) ==
    /\ lastRes' = [res EXCEPT !.proc = p]
    /\ IF p = "cli"
       THEN /\ stdout' = PrintLines(res)
            /\ status' = CommandStatus(res)
            /\ Ended(p)
       ELSE /\ stdout' = <<>>
            /\ status' = -1
            /\ UNCHANGED <<pc, args, found, after>>

\* KVLite::new returns Err: main returns it, a library caller is left
\* without a KVLite
FailNew(p, e) ==
    /\ lastRes' = [Err("new", 0, e) EXCEPT !.proc = p]
    /\ stdout' = <<>>
    /\ status' = IF p = "cli" THEN StartupStatus(e) ELSE -1
    /\ Ended(p)

----------------------------------------------------------------------------
Init ==
    /\ fileExists \in BOOLEAN
    /\ tableExists = FALSE
    /\ rows = <<>>
    /\ createCount = 0
    /\ pc = [p \in Procs |-> "idle"]
    /\ args = [p \in Procs |-> NoArgs]
    /\ found = [p \in Procs |-> FALSE]
    /\ lastRes = NoRes
    /\ stdout = <<>>
    /\ status = -1
    /\ live = [k \in Keys |-> 0]
    /\ opensDone = FALSE
    /\ after = [p \in Procs |-> FALSE]

\* main up to the call of KVLite::new: the location is --ds or the default
\* under the configuration directory
MainStart(ds, env) ==
    /\ pc["cli"] = "idle"
    /\ IF ds = "none" /\ env # "ok"
       THEN /\ lastRes' = [Err("main", 0, IF env = "noconfigdir" THEN "panic" ELSE "io")
                              EXCEPT !.proc = "cli"]
            /\ stdout' = <<>>
            /\ status' = StartupStatus(lastRes'.err)
            /\ UNCHANGED <<pc, args>>
       ELSE /\ args' = [args EXCEPT !["cli"] =
                          [filename |-> IF ds = "none" THEN "good" ELSE ds,
                           read_only |-> FALSE, create_new |-> TRUE]]
            /\ pc' = [pc EXCEPT !["cli"] = "new"]
            /\ Quiet
    /\ UNCHANGED <<dbvars, found, opensDone, after>>

\* a library caller calls KVLite::new(filename, kv_name, read_only, create_new)
LibStart(ro, cn) ==
    /\ pc["lib"] = "idle"
    /\ args' = [args EXCEPT !["lib"] =
                  [filename |-> "good", read_only |-> ro, create_new |-> cn]]
    /\ pc' = [pc EXCEPT !["lib"] = "new"]
    /\ Quiet
    /\ UNCHANGED <<dbvars, found, opensDone, after>>

\* KVLite::new, SqlitePool::connect_with
NewConnect(p) ==
    /\ pc[p] = "new"
    /\ IF ConnectOk(args[p], fileExists)
       THEN /\ fileExists' = TRUE
            /\ pc' = [pc EXCEPT ![p] = "connected"]
            /\ after' = [after EXCEPT ![p] = opensDone]
            /\ Quiet
            /\ UNCHANGED <<args, found>>
       ELSE /\ FailNew(p, "CannotOpen")
            /\ UNCHANGED fileExists
    /\ UNCHANGED <<tableExists, rows, createCount, live, opensDone>>

\* KVLite::new, the catalog query
NewCheck(p) ==
    /\ pc[p] = "connected"
    /\ found' = [found EXCEPT ![p] =
                   FetchOptional(SelectNameFromMaster(tableExists)).some]
    /\ pc' = [pc EXCEPT ![p] = "checked"]
    /\ Quiet
    /\ UNCHANGED <<dbvars, args, opensDone, after>>

\* create_store_table: CREATE TABLE T (key TEXT PRIMARY KEY, value TEXT)
CreateTableError(a, exists) ==
    IF ~WriteAllowed(a) THEN "ReadOnly"
    ELSE IF exists THEN "TableExists"
    ELSE ""

\* KVLite::new, the match on the catalog row and create_store_table
NewMatch(p) ==
    /\ pc[p] = "checked"
    /\ IF found[p]
       THEN /\ pc' = [pc EXCEPT ![p] = "open"]
            /\ lastRes' = [Ok("new", 0) EXCEPT !.proc = p]
            /\ stdout' = <<>>
            /\ status' = -1
            /\ opensDone' = TRUE
            /\ UNCHANGED <<tableExists, rows, createCount, args, found, after>>
       ELSE IF CreateTableError(args[p], tableExists) # ""
            THEN /\ FailNew(p, CreateTableError(args[p], tableExists))
                 /\ UNCHANGED <<tableExists, rows, createCount, opensDone>>
            ELSE /\ tableExists' = TRUE
                 /\ rows' = <<>>
                 /\ createCount' = createCount + 1
                 /\ pc' = [pc EXCEPT ![p] = "open"]
                 /\ lastRes' = [Ok("new", 0) EXCEPT !.proc = p]
                 /\ stdout' = <<>>
                 /\ status' = -1
                 /\ opensDone' = TRUE
                 /\ UNCHANGED <<args, found, after>>
    /\ UNCHANGED <<fileExists, live>>

Get(p, k) ==
    /\ pc[p] = "open"
    /\ Deliver(p, GetResult(rows, k))
    /\ UNCHANGED <<dbvars, opensDone>>

Set(p, k, v) ==
    /\ pc[p] = "open"
    /\ LET res == SetResult(args[p], k)
       IN /\ Deliver(p, [res EXCEPT !.val = v, !.was = live[k]])
          /\ IF res.ok
             THEN /\ rows' = InsertOrReplace(rows, k, v)
                  /\ live' = [live EXCEPT ![k] = v]
             ELSE UNCHANGED <<rows, live>>
    /\ UNCHANGED <<fileExists, tableExists, createCount, opensDone>>

Del(p, k) ==
    /\ pc[p] = "open"
    /\ LET res == DelResult(args[p], k)
       IN /\ Deliver(p, [res EXCEPT !.was = live[k]])
          /\ IF res.ok
             THEN /\ rows' = DeleteWhereKey(rows, k)
                  /\ live' = [live EXCEPT ![k] = 0]
             ELSE UNCHANGED <<rows, live>>
    /\ UNCHANGED <<fileExists, tableExists, createCount, opensDone>>

KeysOp(p) ==
    /\ pc[p] = "open"
    /\ Deliver(p, [Ok("keys", 0) EXCEPT !.out = SelectKey(rows)])
    /\ UNCHANGED <<dbvars, opensDone>>

ValuesOp(p) ==
    /\ pc[p] = "open"
    /\ Deliver(p, [Ok("values", 0) EXCEPT !.out = SelectValue(rows)])
    /\ UNCHANGED <<dbvars, opensDone>>

RecordsOp(p) ==
    /\ pc[p] = "open"
    /\ Deliver(p, [Ok("records", 0) EXCEPT !.out = SelectKeyValue(rows)])
    /\ UNCHANGED <<dbvars, opensDone>>

Contains(p, k) ==
    /\ pc[p] = "open"
    /\ Deliver(p, ContainsResult(rows, k))
    /\ UNCHANGED <<dbvars, opensDone>>

\* a library caller drops its KVLite
Finish ==
    /\ pc["lib"] = "open"
    /\ Ended("lib")
    /\ Quiet
    /\ UNCHANGED <<dbvars, opensDone>>

Next ==
    \/ \E ds \in Files \cup {"none"}, env \in DirEnv : MainStart(ds, env)
    \/ \E ro \in BOOLEAN, cn \in BOOLEAN : LibStart(ro, cn)
    \/ \E p \in Procs : NewConnect(p)
    \/ \E p \in Procs : NewCheck(p)
    \/ \E p \in Procs : NewMatch(p)
    \/ \E p \in Procs, k \in Keys : Get(p, k)
    \/ \E p \in Procs, k \in Keys, v \in Vals : Set(p, k, v)
    \/ \E p \in Procs, k \in Keys : Del(p, k)
    \/ \E p \in Procs : KeysOp(p)
    \/ \E p \in Procs : ValuesOp(p)
    \/ \E p \in Procs : RecordsOp(p)
    \/ \E p \in Procs, k \in Keys : Contains(p, k)
    \/ Finish

Spec == Init /\ [][Next]_vars

----------------------------------------------------------------------------
(* Helpers of the properties *)

ReadOps == {"get", "contains", "keys", "values", "records"}

WriteOps == {"set", "del"}

CommandOps == ReadOps \cup WriteOps

LiveKeys == {k \in Keys : live[k] # 0}

LivePairs == {<<k, live[k]>> : k \in LiveKeys}

Distinct(q) == \A i, j \in 1..Len(q) : q[i] = q[j] => i = j

\* how many times x occurs in q
Count(q, x) == Cardinality({i \in 1..Len(q) : q[i] = x})

\* the arguments with which main calls KVLite::new on the database file
ReadWriteCreate(a) == a.filename = "good" /\ ~a.read_only /\ a.create_new

----------------------------------------------------------------------------
(* The properties *)

\* C1: while the last write of key k was a successful set(k, v), whatever
\* sets and deletes came before it, get(k) returns Ok(v) and contains(k)
\* returns Ok(true).
C1_SetThenGet ==
    /\ (lastRes.op = "get" /\ live[lastRes.key] # 0)
          => (lastRes.ok /\ lastRes.val = live[lastRes.key])
    /\ (lastRes.op = "contains" /\ live[lastRes.key] # 0)
          => (lastRes.ok /\ lastRes.found)

\* a get has returned the value of a set while the other key has been set too
C1_Witness ==
    /\ lastRes.op = "get"
    /\ lastRes.ok
    /\ lastRes.val = live[lastRes.key]
    /\ LiveKeys = Keys

\* C2: for a key with no row (never set, or deleted since its last set),
\* get fails with RowNotFound and contains returns Ok(false); contains never
\* returns an error.
C2_AbsentKey ==
    /\ (lastRes.op = "get" /\ live[lastRes.key] = 0)
          => (~lastRes.ok /\ lastRes.err = "RowNotFound")
    /\ (lastRes.op = "contains" /\ live[lastRes.key] = 0)
          => (lastRes.ok /\ ~lastRes.found)
    /\ lastRes.op = "contains" => lastRes.ok

\* contains has returned Ok(false) for a key that has no row, on a table
\* that holds another key
C2_Witness ==
    /\ lastRes.op = "contains"
    /\ lastRes.ok
    /\ ~lastRes.found
    /\ live[lastRes.key] = 0
    /\ rows # <<>>

\* C3: set is a last-write-wins upsert: a successful set(k, v2) of a key
\* that has a row replaces that row rather than adding one, get(k) then
\* returns v2, and keys() holds every key at most once.
C3_Upsert ==
    [][(lastRes'.op = "set" /\ lastRes'.ok) =>
          /\ lastRes'.was # 0 => Len(rows') = Len(rows)
          /\ GetResult(rows', lastRes'.key).ok
          /\ GetResult(rows', lastRes'.key).val = lastRes'.val
          /\ Distinct(SelectKey(rows'))]_vars

\* a set has overwritten the row of a key with another value
C3_Witness ==
    /\ lastRes.op = "set"
    /\ lastRes.ok
    /\ lastRes.was # 0
    /\ lastRes.was # lastRes.val
    /\ Len(rows) = NumKeys

\* C4: del(k) on a writable store returns Ok whether or not k has a row,
\* contains(k) is false afterwards, and a second del(k) returns Ok again
\* and leaves the table as the first left it.
C4_DeleteIdempotent ==
    [][\A p \in Procs :
          (lastRes'.proc = p /\ lastRes'.op = "del" /\ WriteAllowed(args[p])) =>
              /\ lastRes'.ok
              /\ ~ContainsResult(rows', lastRes'.key).found
              /\ DelResult(args[p], lastRes'.key).ok
              /\ DeleteWhereKey(rows', lastRes'.key) = rows']_vars

\* a del of a key that has no row has returned Ok
C4_Witness ==
    /\ lastRes.op = "del"
    /\ lastRes.ok
    /\ lastRes.was = 0
    /\ rows # <<>>

\* C5: records() returns, up to order, exactly the pairs (k, v) with v the
\* value of the last set of k not followed by a del of k; keys() and
\* values() return the first and second components of the same rows, one
\* entry per row, so the three have the same length, 0 on the empty table.
C5_Enumerations ==
    /\ lastRes.op \in {"keys", "values", "records"} =>
          Len(lastRes.out) = Cardinality(LiveKeys)
    /\ lastRes.op = "records" =>
          \A k \in Keys, v \in Vals :
              Count(lastRes.out, [key |-> k, value |-> v]) = IF live[k] = v THEN 1 ELSE 0
    /\ lastRes.op = "keys" =>
          \A k \in Keys :
              Count(lastRes.out, [key |-> k]) = IF k \in LiveKeys THEN 1 ELSE 0
    /\ lastRes.op = "values" =>
          \A v \in Vals :
              Count(lastRes.out, [value |-> v]) = Cardinality({k \in Keys : live[k] = v})

\* values() has returned one value per key, while the keys are numbered
\* otherwise than their values
C5_Witness ==
    /\ lastRes.op = "values"
    /\ Len(lastRes.out) = NumKeys
    /\ \E k \in Keys : live[k] # k

\* C6: a call of new(location, T, false, true) made after a call of new on
\* the same file and table has returned Ok succeeds, runs no CREATE TABLE
\* and leaves every row as it was.
C6_OpenIdempotent ==
    [][\A p \in Procs : ReadWriteCreate(args[p]) =>
          /\ (pc[p] = "new" /\ opensDone /\ pc'[p] # "new") => pc'[p] = "connected"
          /\ (pc[p] = "connected" /\ after[p] /\ pc'[p] # "connected") => found'[p]
          /\ (pc[p] = "checked" /\ after[p] /\ pc'[p] # "checked") =>
                /\ pc'[p] = "open"
                /\ lastRes'.ok
                /\ tableExists'
                /\ createCount' = createCount
                /\ rows' = rows]_vars

\* a second new has returned Ok on a table that holds rows
C6_Witness ==
    \E p \in Procs :
        /\ after[p]
        /\ ReadWriteCreate(args[p])
        /\ lastRes.proc = p
        /\ lastRes.op = "new"
        /\ lastRes.ok
        /\ rows # <<>>
        /\ createCount = 1

\* C7 as claimed: whatever error a run of main meets, opening the store or
\* serving the command, it is printed to standard output and the exit
\* status is 0.
C7_NeverFails ==
    (lastRes.proc = "cli" /\ ~lastRes.ok) =>
        (status = 0 /\ stdout = ErrLines(lastRes))

\* C7 amended: an error of the command itself is printed to standard output
\* and the exit status is 0; an error before it (resolving the default
\* location, KVLite::new) ends main with a non-zero status and nothing on
\* standard output.
C7_CommandErrorsOnly ==
    /\ (lastRes.proc = "cli" /\ lastRes.op \in CommandOps) =>
          /\ status = 0
          /\ ~lastRes.ok => stdout = ErrLines(lastRes)
    /\ (lastRes.proc = "cli" /\ lastRes.op \in {"main", "new"} /\ ~lastRes.ok) =>
          /\ status > 0
          /\ stdout = <<>>

\* a run of main has printed the RowNotFound of its get and exited with 0
C7_Witness ==
    /\ lastRes.proc = "cli"
    /\ lastRes.op = "get"
    /\ ~lastRes.ok
    /\ stdout = <<Line("RowNotFound", 0, 0)>>
    /\ status = 0

\* C8: on a store opened with read_only a set or del returns an error and
\* leaves the rows as they were; new with read_only on a database without
\* the table returns an error, no KVLite, and creates no table.
C8_ReadOnly ==
    [][\A p \in Procs : args[p].read_only =>
          /\ (lastRes'.proc = p /\ lastRes'.op \in WriteOps) =>
                (~lastRes'.ok /\ rows' = rows)
          /\ (pc[p] = "checked" /\ ~tableExists /\ pc'[p] # "checked") =>
                /\ pc'[p] = "idle"
                /\ lastRes'.op = "new"
                /\ ~lastRes'.ok
                /\ ~tableExists'
                /\ createCount' = createCount]_vars

\* a set on a read-only store has failed on a table that holds rows
C8_Witness ==
    /\ lastRes.op = "set"
    /\ ~lastRes.ok
    /\ lastRes.err = "ReadOnly"
    /\ rows # <<>>

\* C9: set(k, v) and del(k) leave get(j) and contains(j) of every other key
\* j as they were, and get, contains, keys, values and records leave the
\* table as it was.
C9_Frame ==
    [][/\ \A j \in Keys :
            (lastRes'.op \in WriteOps /\ lastRes'.key # j) =>
                /\ GetResult(rows', j) = GetResult(rows, j)
                /\ ContainsResult(rows', j) = ContainsResult(rows, j)
       /\ lastRes'.op \in ReadOps =>
            (rows' = rows /\ tableExists' = tableExists)]_vars

\* a del has removed the row of its key and another key has kept its row
C9_Witness ==
    /\ lastRes.op = "del"
    /\ lastRes.ok
    /\ lastRes.was # 0
    /\ rows # <<>>

\* C10 as claimed: when two processes call new on the same file and table
\* while the table does not exist, both calls return Ok under every
\* interleaving and the table is created once.
C10_ConcurrentOpen ==
    /\ lastRes.op = "new" => lastRes.err # "TableExists"
    /\ createCount <= 1
====
